---- MODULE Spec2Model ----
(***************************************************************************)
(* SingleBoolAttribute (searchlib/attribute/singleboolattribute.cpp): a    *)
(* one-bit-per-document column with buffered changes, generation based     *)
(* hold lists, a raw save/load format and a bit vector search context.     *)
(*                                                                         *)
(* Documents are numbered from 0; bv.bits is a sequence over {0,1} whose   *)
(* element d+1 is the bit of document d.                                   *)
(***************************************************************************)
EXTENDS Integers, Sequences, FiniteSets, TLC

\* ------------------------------------------------------------------ bounds
MaxDocs == 3
MaxChanges == 2
MaxPending == 1
MaxBuf == 2

\* ------------------------------------------------------- program constants
BitsPerByte == 8
Int8Range == 256

VARIABLES
    numDocs,                \* AttributeVector status: number of documents
    committedDocIdLimit,    \* limit readers may use
    uncommittedDocIdLimit,  \* limit reserved by the writer
    bv,                     \* _bv: [bits, capacity, count]
    changes,                \* _changes: pending changes, in submission order
    generation,             \* generation handler: current generation
    firstUsed,              \* generation handler: first generation in use by a reader
    hold1,                  \* generation holder: buffers held, not yet tagged
    hold2,                  \* generation holder: tags of held buffers, oldest first
    file,                   \* the attribute's saved .dat file, NoFile when absent
    aborted,                \* an assert has failed; the process is gone
    last,                   \* the call that produced this state, its arguments and results
    mem,                    \* what readers see of the attribute's memory
    sbuf,                   \* the writer's stores that readers do not see yet, oldest first
    wpc,                    \* the writer's position in commit
    rdr,                    \* a reader's iterator; readers only read, so one stands for all
    sc,                     \* a search context made by getSearch
    it                      \* the iterator made by the search context

colvars == <<numDocs, committedDocIdLimit, uncommittedDocIdLimit, bv, changes,
             generation, firstUsed, hold1, hold2, file, aborted, last>>

pubvars == <<mem, sbuf, wpc, rdr>>

searchvars == <<sc, it>>

\* ----------------------------------------------------------------- helpers
Max(a, b) == IF a >= b THEN a ELSE b

Min(a, b) == IF a <= b THEN a ELSE b

RECURSIVE Pow2(_)
Pow2(k) == IF k = 0 THEN 1 ELSE 2 * Pow2(k - 1)

Zeros(n) == [i \in 1..n |-> 0]

Copies(n, v) == [i \in 1..n |-> v]

\* The .dat file: the header's count and the payload bytes; srcBits and srcLimit record
\* the bits and the committed limit of the attribute that was saved.
NoFile ==
    [present |-> FALSE, count |-> 0, payload |-> <<>>, srcBits |-> <<>>, srcLimit |-> 0]

NoCall == [op |-> "init", ret |-> 0, lo |-> 0, hi |-> 0, freed |-> {}, ok |-> TRUE]

Call(op, ret, lo, hi, freed, ok) ==
    [op |-> op, ret |-> ret, lo |-> lo, hi |-> hi, freed |-> freed, ok |-> ok]

\* ------------------------------------------------- bit vector (GrowableBitVector)
\* The cached number of set bits when none is cached.
InvalidCount == -1

\* A vector of no bits, as constructed: cleared.
EmptyBitVector == [bits |-> <<>>, capacity |-> 0, count |-> 0]

\* getFast(doc): the bit of a document; a document outside the vector reads 0.
getFast(bits, doc) == IF doc < Len(bits) THEN bits[doc + 1] ELSE 0

\* setBit / clearBit: a write outside the vector changes no document.
writeBit(bits, doc, b) == IF doc < Len(bits) THEN [bits EXCEPT ![doc + 1] = b] ELSE bits

setBit(bits, doc) == writeBit(bits, doc, 1)

clearBit(bits, doc) == writeBit(bits, doc, 0)

\* extend(n): size becomes n, new bits are 0; reallocates when n is above the capacity.
extendRealloc(v, n) == n > v.capacity

extend(v, n) ==
    [bits |-> IF n >= Len(v.bits) THEN v.bits \o Zeros(n - Len(v.bits))
              ELSE SubSeq(v.bits, 1, n),
     capacity |-> Max(v.capacity, n),
     count |-> IF n >= Len(v.bits) THEN v.count ELSE InvalidCount]

\* reserve(n): capacity becomes at least n, the size stays.
reserve(v, n) == [v EXCEPT !.capacity = Max(v.capacity, n)]

\* shrink(n): size becomes n; the capacity is kept, the cached count is dropped.
shrink(v, n) ==
    [v EXCEPT !.bits = SubSeq(v.bits, 1, Min(n, Len(v.bits))), !.count = InvalidCount]

\* clear(): every bit becomes 0, and the vector knows its count is 0.
clear(v) == [v EXCEPT !.bits = Zeros(Len(v.bits)), !.count = 0]

\* invalidateCachedCount(): the next countTrueBits() counts again.
invalidateCachedCount(v) == [v EXCEPT !.count = InvalidCount]

\* The number of set bits, counted.
RECURSIVE internalCount(_)
internalCount(bits) ==
    IF bits = <<>> THEN 0 ELSE (IF Head(bits) # 0 THEN 1 ELSE 0) + internalCount(Tail(bits))

\* countTrueBits(): the cached count when there is one, else the bits are counted and
\* the count is cached.
countTrueBits(v) == IF v.count # InvalidCount THEN v.count ELSE internalCount(v.bits)

counted(v) == [v EXCEPT !.count = countTrueBits(v)]

\* sizeBytes(): bytes of the packed bits.
sizeBytes(n) == (n + BitsPerByte - 1) \div BitsPerByte

\* The raw storage as bytes: bit i of the vector is bit (i % 8) of byte (i / 8).
byteAt(bits, j) ==
    LET RECURSIVE Sum(_)
        Sum(k) == IF k = BitsPerByte THEN 0
                  ELSE getFast(bits, BitsPerByte * j + k) * Pow2(k) + Sum(k + 1)
    IN Sum(0)

getStart(bits) == [j \in 1..sizeBytes(Len(bits)) |-> byteAt(bits, j - 1)]

\* The bits of a vector of n documents whose storage holds the given bytes.
bitsOfBytes(bytes, n) ==
    [i \in 1..n |-> (bytes[((i - 1) \div BitsPerByte) + 1] \div Pow2((i - 1) % BitsPerByte)) % 2]

\* ---------------------------------------------------- generation holder
\* transferHoldLists(gen): tag every untagged buffer with gen.
transferHoldLists(h1, h2, gen) == h2 \o Copies(h1, gen)

\* trimHoldLists(firstUsedGen): free the buffers tagged below firstUsedGen.
trimHoldLists(h2, fu) == SelectSeq(h2, LAMBDA g : g >= fu)

trimmed(h2, fu) == {[tag |-> h2[i], fu |-> fu] : i \in {j \in 1..Len(h2) : h2[j] < fu}}

\* clearHoldLists(): free every held buffer, tagged or not.
clearedTags(h1, h2, gen, fu) ==
    {[tag |-> h2[i], fu |-> fu] : i \in 1..Len(h2)}
        \cup (IF h1 > 0 THEN {[tag |-> gen, fu |-> fu]} ELSE {})

\* SingleBoolAttribute::removeOldGenerations(firstUsed)
removeOldGenerations(h2, fu) == trimHoldLists(h2, fu)

\* onGenerationChange tagging with the generation it is given, not the one before it.
onGenerationChangeCurrent(h1, h2, gen) == transferHoldLists(h1, h2, gen)

\* SingleBoolAttribute::onGenerationChange(generation)
onGenerationChange(h1, h2, gen) == transferHoldLists(h1, h2, gen - 1)

\* ------------------------------------------------------- AttributeVector base
\* updateUncommittedDocIdLimit(doc): the limit covers doc.
updateUncommittedDocIdLimit(limit, doc) == IF limit <= doc THEN doc + 1 ELSE limit

\* commit() publishes the uncommitted limit once onCommit has returned.
updateCommittedDocIdLimit(committed, uncommitted) == Max(committed, uncommitted)

\* incGeneration(): tag what is held with the current generation, then advance it.
incGeneration(h) ==
    [gen |-> h.gen + 1, h1 |-> 0, h2 |-> onGenerationChange(h.h1, h.h2, h.gen + 1),
     freed |-> {}]

\* removeAllOldGenerations(): trim with the first generation still in use.
removeAllOldGenerations(h, fu) ==
    [gen |-> h.gen, h1 |-> h.h1, h2 |-> removeOldGenerations(h.h2, fu),
     freed |-> trimmed(h.h2, fu)]

Holder == [gen |-> generation, h1 |-> hold1, h2 |-> hold2, freed |-> {}]

SetHolder(h) == generation' = h.gen /\ hold1' = h.h1 /\ hold2' = h.h2

\* ------------------------------------------------------------ change vector
UPDATE == "UPDATE"

ADD == "ADD"

SUB == "SUB"

MUL == "MUL"

DIV == "DIV"

CLEARDOC == "CLEARDOC"

ArithTypes == {ADD, SUB, MUL, DIV}

ChangeTypes == {UPDATE, ADD, SUB, MUL, DIV, CLEARDOC}

\* The operands the change queue is fed with, per type of change.
Operands(type) ==
    CASE type = UPDATE -> {0, 1}
      [] type = ADD -> {-1, 1}
      [] type = SUB -> {1}
      [] type = MUL -> {0}
      [] type = DIV -> {1}
      [] OTHER -> {0}

Change(type, doc, data) == [type |-> type, doc |-> doc, data |-> data]

\* Truncation of an integer to int8_t.
trunc8(x) == ((x + Int8Range \div 2) % Int8Range) - Int8Range \div 2

\* C++ integer division, rounding towards zero.
truncDiv(a, b) ==
    LET q == (IF a < 0 THEN -a ELSE a) \div (IF b < 0 THEN -b ELSE b)
    IN IF (a < 0) = (b < 0) THEN q ELSE -q

\* applyArithmetic(value, change) on an int8_t value.
applyArithmetic(value, change) ==
    CASE change.type = ADD -> trunc8(value + change.data)
      [] change.type = SUB -> trunc8(value - change.data)
      [] change.type = MUL -> trunc8(value * change.data)
      [] change.type = DIV -> trunc8(truncDiv(value, change.data))
      [] OTHER -> value

\* onCommit with the two branches of an UPDATE swapped.
applyChangeSwapped(bits, change) ==
    IF change.type = UPDATE
    THEN IF change.data = 0 THEN setBit(bits, change.doc) ELSE clearBit(bits, change.doc)
    ELSE IF change.type \in ArithTypes
    THEN IF applyArithmetic(getFast(bits, change.doc), change) = 0
         THEN clearBit(bits, change.doc)
         ELSE setBit(bits, change.doc)
    ELSE IF change.type = CLEARDOC
    THEN clearBit(bits, change.doc)
    ELSE bits

\* onCommit deciding an arithmetic change by its operand, not by the value computed.
applyChangeByOperand(bits, change) ==
    IF change.type = UPDATE \/ change.type \in ArithTypes
    THEN IF change.data = 0 THEN clearBit(bits, change.doc) ELSE setBit(bits, change.doc)
    ELSE IF change.type = CLEARDOC
    THEN clearBit(bits, change.doc)
    ELSE bits

\* onCommit, the body of the loop: one change applied to the bits.
applyChange(bits, change) ==
    IF change.type = UPDATE
    THEN IF change.data = 0 THEN clearBit(bits, change.doc) ELSE setBit(bits, change.doc)
    ELSE IF change.type \in ArithTypes
    THEN IF applyArithmetic(getFast(bits, change.doc), change) = 0
         THEN clearBit(bits, change.doc)
         ELSE setBit(bits, change.doc)
    ELSE IF change.type = CLEARDOC
    THEN clearBit(bits, change.doc)
    ELSE bits

\* onCommit walking the change vector from its last change to its first.
RECURSIVE applyChangesBackwards(_, _)
applyChangesBackwards(bits, chs) ==
    IF chs = <<>> THEN bits
    ELSE applyChangesBackwards(LET c == chs[Len(chs)]
                               IN IF c.type = UPDATE
                                  THEN writeBit(bits, c.doc, IF c.data = 0 THEN 0 ELSE 1)
                                  ELSE IF c.type \in ArithTypes
                                  THEN writeBit(bits, c.doc,
                                                IF applyArithmetic(getFast(bits, c.doc), c) = 0
                                                THEN 0 ELSE 1)
                                  ELSE writeBit(bits, c.doc, 0),
                               SubSeq(chs, 1, Len(chs) - 1))

\* onCommit, the loop: every change of the vector, first to last.
RECURSIVE applyChanges(_, _)
applyChanges(bits, chs) ==
    IF chs = <<>> THEN bits
    ELSE applyChanges(applyChange(bits, Head(chs)), Tail(chs))

\* --------------------------------------------------------------- operations
\* A failed assert: the process is gone, and with it the attribute; the file stays.
Abort(op, lo, hi) ==
    /\ aborted' = TRUE
    /\ numDocs' = 0
    /\ committedDocIdLimit' = 0
    /\ uncommittedDocIdLimit' = 0
    /\ bv' = EmptyBitVector
    /\ changes' = <<>>
    /\ generation' = 0
    /\ firstUsed' = 0
    /\ hold1' = 0
    /\ hold2' = <<>>
    /\ last' = Call(op, 0, lo, hi, {}, FALSE)
    /\ UNCHANGED file

\* addDoc handing out the incremented count itself (the decrement forgotten).
addDocIdNotDecremented(n) == n + 1

\* addDoc: the id handed out once the number of documents n has been incremented.
addDocId(n) == (n + 1) - 1

\* addDoc advancing the generation whether or not the vector was reallocated.
addDocGenerationsAlways(incGen, held, fu) == incGeneration(held)

\* addDoc: incGeneration() when extend reallocated, removeAllOldGenerations() otherwise.
addDocGenerations(incGen, held, fu) ==
    IF incGen THEN incGeneration(held) ELSE removeAllOldGenerations(held, fu)

\* SingleBoolAttribute::addDoc
addDoc ==
    /\ ~aborted
    /\ numDocs < MaxDocs
    /\ LET incGen == extendRealloc(bv, numDocs + 1)
           doc == addDocId(numDocs)
           held == [Holder EXCEPT !.h1 = IF incGen THEN @ + 1 ELSE @]
           h == addDocGenerations(incGen, held, firstUsed)
       IN /\ bv' = extend(bv, numDocs + 1)
          /\ numDocs' = numDocs + 1
          /\ uncommittedDocIdLimit' = updateUncommittedDocIdLimit(uncommittedDocIdLimit, doc)
          /\ SetHolder(h)
          /\ last' = Call("addDoc", doc, 0, 0, h.freed, TRUE)
    /\ UNCHANGED <<committedDocIdLimit, changes, firstUsed, file, aborted>>

\* SingleBoolAttribute::onAddDocs
onAddDocs(docIdLimit) ==
    /\ ~aborted
    /\ docIdLimit > bv.capacity
    /\ bv' = reserve(bv, docIdLimit)
    /\ hold1' = hold1 + 1
    /\ last' = Call("onAddDocs", 0, docIdLimit, 0, {}, TRUE)
    /\ UNCHANGED <<numDocs, committedDocIdLimit, uncommittedDocIdLimit, changes,
                   generation, firstUsed, hold2, file, aborted>>

\* The change queue: update(doc, v), the arithmetic updates and clearDoc(doc) append
\* a change for an existing document.
enqueue(type, doc, data) ==
    /\ ~aborted
    /\ doc < numDocs
    /\ Len(changes) < MaxChanges
    /\ changes' = Append(changes, Change(type, doc, data))
    /\ last' = Call("enqueue", 0, doc, 0, {}, TRUE)
    /\ UNCHANGED <<numDocs, committedDocIdLimit, uncommittedDocIdLimit, bv,
                   generation, firstUsed, hold1, hold2, file, aborted>>

\* SingleBoolAttribute::onCommit: the bits after the changes are applied.
onCommitBits(bits, chs) == IF chs # <<>> THEN applyChanges(bits, chs) ELSE bits

\* onCommit leaving the cached count as it is.
onCommitCountKept(v, chs) == v

\* SingleBoolAttribute::onCommit: the cached count is invalidated once changes were applied.
onCommitCount(v, chs) == IF chs # <<>> THEN invalidateCachedCount(v) ELSE v

\* AttributeVector::commit with chs in _changes: onCommit, then the committed limit is
\* published.
commitState(chs) ==
    /\ ~aborted
    /\ LET h == removeAllOldGenerations(Holder, firstUsed)
       IN /\ bv' = onCommitCount([bv EXCEPT !.bits = onCommitBits(bv.bits, chs)], chs)
          /\ SetHolder(h)
          /\ changes' = <<>>
          /\ committedDocIdLimit' =
                 updateCommittedDocIdLimit(committedDocIdLimit, uncommittedDocIdLimit)
    /\ UNCHANGED <<numDocs, uncommittedDocIdLimit, firstUsed, file, aborted>>

commitChanges(chs) ==
    /\ commitState(chs)
    /\ last' = Call("commit", 0, Len(chs), 0,
                    removeAllOldGenerations(Holder, firstUsed).freed, TRUE)

commit == commitChanges(changes)

\* One change of any type for a document, queued and committed with nothing else
\* queued. The call records the type, the bit before, the document and the operand.
applyOne(type, doc, data) ==
    /\ doc < numDocs
    /\ changes = <<>>
    /\ commitState(<<Change(type, doc, data)>>)
    /\ last' = Call(type, getFast(bv.bits, doc), doc, data,
                    removeAllOldGenerations(Holder, firstUsed).freed, TRUE)

\* The operands arithmetic changes are tried with: small ones, and ones at and around
\* the range of int8_t. A division is tried with non-zero operands only.
WideOperands(type) ==
    CASE type = UPDATE -> {0, 1, -1, Int8Range}
      [] type = ADD -> {-1, 0, 1, Int8Range - 1, Int8Range, -Int8Range}
      [] type = SUB -> {-1, 0, 1, 1 - Int8Range, Int8Range}
      [] type = MUL -> {-1, 0, 1, 2, Int8Range \div 2, Int8Range}
      [] type = DIV -> {-2, -1, 1, 2, Int8Range}
      [] OTHER -> {0}

\* update(doc, data) and the commit that follows it, with nothing else queued.
updateCommit(doc, data) ==
    /\ doc < numDocs
    /\ changes = <<>>
    /\ commitChanges(<<Change(UPDATE, doc, data)>>)

\* AttributeVector::clearDoc(lid), as called by clearDocs: a CLEARDOC change is queued.
clearDoc(chs, lid) == Append(chs, Change(CLEARDOC, lid, 0))

\* clearDocs without the test of the current value: every document of the range.
RECURSIVE clearDocsLoopUnconditional(_, _, _, _)
clearDocsLoopUnconditional(bits, chs, lid, lidLimit) ==
    IF lid < lidLimit
    THEN clearDocsLoopUnconditional(bits, clearDoc(chs, lid), lid + 1, lidLimit)
    ELSE chs

\* SingleBoolAttribute::clearDocs, the loop from lid to lidLimit.
RECURSIVE clearDocsLoop(_, _, _, _)
clearDocsLoop(bits, chs, lid, lidLimit) ==
    IF lid < lidLimit
    THEN clearDocsLoop(bits,
                       IF getFast(bits, lid) # 0 THEN clearDoc(chs, lid) ELSE chs,
                       lid + 1, lidLimit)
    ELSE chs

\* SingleBoolAttribute::clearDocs
clearDocs(lidLow, lidLimit) ==
    /\ ~aborted
    /\ Len(changes) < MaxChanges
    /\ IF lidLow <= lidLimit /\ lidLimit <= numDocs
       THEN /\ changes' = clearDocsLoop(bv.bits, changes, lidLow, lidLimit)
            /\ last' = Call("clearDocs", 0, lidLow, lidLimit, {}, TRUE)
            /\ UNCHANGED <<numDocs, committedDocIdLimit, uncommittedDocIdLimit, bv,
                           generation, firstUsed, hold1, hold2, file, aborted>>
       ELSE Abort("clearDocs", lidLow, lidLimit)

\* onShrinkLidSpace asserting <= where < is meant.
shrinkAssertedWeak == committedDocIdLimit <= numDocs

\* onShrinkLidSpace: the condition asserted before the vector is shrunk.
shrinkAsserted == committedDocIdLimit < numDocs

\* SingleBoolAttribute::onShrinkLidSpace
onShrinkLidSpace ==
    /\ ~aborted
    /\ IF shrinkAsserted
       THEN /\ bv' = shrink(bv, committedDocIdLimit)
            /\ numDocs' = committedDocIdLimit
            /\ last' = Call("onShrinkLidSpace", 0, 0, 0, {}, TRUE)
            /\ UNCHANGED <<committedDocIdLimit, uncommittedDocIdLimit, changes,
                           generation, firstUsed, hold1, hold2, file, aborted>>
       ELSE Abort("onShrinkLidSpace", 0, 0)

\* onSave writing the number of documents, not the committed limit, as the count.
savedCountNumDocs == numDocs

\* SingleBoolAttribute::onSave: the header and the payload written to the .dat file.
savedCount == committedDocIdLimit

savedPayload == getStart(bv.bits)

onSave ==
    /\ ~aborted
    /\ file' = [present |-> TRUE, count |-> savedCount, payload |-> savedPayload,
                srcBits |-> bv.bits, srcLimit |-> committedDocIdLimit]
    /\ last' = Call("onSave", 0, 0, 0, {}, TRUE)
    /\ UNCHANGED <<numDocs, committedDocIdLimit, uncommittedDocIdLimit, bv, changes,
                   generation, firstUsed, hold1, hold2, aborted>>

\* SingleBoolAttribute::onLoad, the bits read from the file into the extended vector.
loadedBits(f) == bitsOfBytes(SubSeq(f.payload, 1, sizeBytes(f.count)), f.count)

\* onLoad taking the data for present without asking the reader.
hasDataAssumed(f) == TRUE

\* SingleBoolAttribute::onLoad: attrReader.hasData()
hasData(f) == f.present

\* SingleBoolAttribute::onLoad
onLoad ==
    /\ ~aborted
    /\ IF ~hasData(file)
       THEN /\ last' = Call("onLoad", 0, 0, 0, {}, FALSE)
            /\ UNCHANGED <<numDocs, committedDocIdLimit, uncommittedDocIdLimit, bv, changes,
                           generation, firstUsed, hold1, hold2, file, aborted>>
       ELSE LET freed == clearedTags(hold1, hold2, generation, firstUsed)
                cleared == clear(bv)
                n == file.count
                extended == extend(cleared, n)
            IN IF Len(file.payload) >= sizeBytes(n)
               THEN /\ hold2' = <<>>
                    /\ hold1' = IF extendRealloc(cleared, n) THEN 1 ELSE 0
                    /\ bv' = [extended EXCEPT !.bits = loadedBits(file)]
                    /\ numDocs' = n
                    /\ committedDocIdLimit' = n
                    /\ last' = Call("onLoad", 0, 0, 0, freed, TRUE)
                    /\ UNCHANGED <<uncommittedDocIdLimit, changes, generation, firstUsed,
                                   file, aborted>>
               ELSE Abort("onLoad", 0, 0)

\* A call of removeOldGenerations with the generation handler's first used generation.
removeOldGenerationsCall ==
    /\ ~aborted
    /\ hold2' = removeOldGenerations(hold2, firstUsed)
    /\ last' = Call("removeOldGenerations", 0, 0, 0, trimmed(hold2, firstUsed), TRUE)
    /\ UNCHANGED <<numDocs, committedDocIdLimit, uncommittedDocIdLimit, bv, changes,
                   generation, firstUsed, hold1, file, aborted>>

\* Readers of old generations finish: the first used generation moves up.
updateFirstUsedGeneration(g) ==
    /\ ~aborted
    /\ firstUsed < g /\ g <= generation
    /\ firstUsed' = g
    /\ last' = Call("updateFirstUsedGeneration", 0, g, 0, {}, TRUE)
    /\ UNCHANGED <<numDocs, committedDocIdLimit, uncommittedDocIdLimit, bv, changes,
                   generation, hold1, hold2, file, aborted>>

\* ------------------------------------------------------------ search context
\* A term is the sequence of its characters.
tolower(c) ==
    CASE c = "T" -> "t" [] c = "R" -> "r" [] c = "U" -> "u" [] c = "E" -> "e"
      [] c = "F" -> "f" [] c = "A" -> "a" [] c = "L" -> "l" [] c = "S" -> "s"
      [] OTHER -> c

\* strcmp(a, b) == 0
strcmpEqual(a, b) == a = b

\* strcasecmp(a, b) == 0
strcasecmpEqual(a, b) ==
    /\ Len(a) = Len(b)
    /\ \A i \in 1..Len(a) : tolower(a[i]) = tolower(b[i])

Term1 == <<"1">>

Term0 == <<"0">>

TermTrue == <<"t", "r", "u", "e">>

TermFalse == <<"f", "a", "l", "s", "e">>

\* The constructor comparing the words with strcmp, as it does the digits.
BitVectorSearchContextCaseSensitive(term, isValid) ==
    IF strcmpEqual(Term1, term) \/ strcmpEqual(TermTrue, term)
    THEN [invert |-> FALSE, valid |-> isValid]
    ELSE IF strcmpEqual(Term0, term) \/ strcmpEqual(TermFalse, term)
    THEN [invert |-> TRUE, valid |-> isValid]
    ELSE [invert |-> FALSE, valid |-> FALSE]

\* BitVectorSearchContext::BitVectorSearchContext(qTerm, attr)
BitVectorSearchContext(term, isValid) ==
    IF strcmpEqual(Term1, term) \/ strcasecmpEqual(TermTrue, term)
    THEN [invert |-> FALSE, valid |-> isValid]
    ELSE IF strcmpEqual(Term0, term) \/ strcasecmpEqual(TermFalse, term)
    THEN [invert |-> TRUE, valid |-> isValid]
    ELSE [invert |-> FALSE, valid |-> FALSE]

\* What a context looks for, as valid() and _invert tell createFilterIterator and
\* approximateHits.
MatchSetBits == "MatchSetBits"

MatchClearedBits == "MatchClearedBits"

Invalid == "Invalid"

predicate(ctx) ==
    IF ~ctx.valid THEN Invalid ELSE IF ctx.invert THEN MatchClearedBits ELSE MatchSetBits

\* BitVectorIterator::create(bv, docIdLimit, invert): the documents below the limit
\* whose bit is set, or clear when inverted.
BitVectorIterator(bits, docIdLimit, invert) ==
    {d \in 0..(docIdLimit - 1) : (getFast(bits, d) # 0) # invert}

\* BitVectorSearchContext::createFilterIterator: the documents the iterator matches.
createFilterIterator(ctx, bits, limit) ==
    IF ~ctx.valid THEN {} ELSE BitVectorIterator(bits, limit, ctx.invert)

\* getSearch(term): a search context for the term, as the parser hands it over: its
\* text and the parser's validity flag.
NoContext == [made |-> FALSE, term |-> <<>>, isValid |-> FALSE, invert |-> FALSE,
              valid |-> FALSE]

NoIterator == [made |-> FALSE, empty |-> TRUE, limit |-> 0, invert |-> FALSE,
               committed |-> 0, size |-> 0]

getSearch(term, isValid) ==
    /\ ~aborted
    /\ LET ctx == BitVectorSearchContext(term, isValid)
       IN sc' = [made |-> TRUE, term |-> term, isValid |-> isValid,
                 invert |-> ctx.invert, valid |-> ctx.valid]
    /\ it' = NoIterator
    /\ last' = Call("getSearch", 0, 0, 0, {}, TRUE)
    /\ UNCHANGED <<numDocs, committedDocIdLimit, uncommittedDocIdLimit, bv, changes,
                   generation, firstUsed, hold1, hold2, file, aborted>>

\* BitVectorSearchContext::approximateHits: the estimate, and the count it leaves cached.
approximateHitsValue(ctx, v) ==
    IF ctx.valid
    THEN IF ctx.invert THEN Len(v.bits) - countTrueBits(v) ELSE countTrueBits(v)
    ELSE 0

approximateHits ==
    /\ ~aborted
    /\ sc.made
    /\ bv' = IF sc.valid THEN counted(bv) ELSE bv
    /\ last' = Call("approximateHits", approximateHitsValue(sc, bv), 0, 0, {}, TRUE)
    /\ UNCHANGED <<numDocs, committedDocIdLimit, uncommittedDocIdLimit, changes,
                   generation, firstUsed, hold1, hold2, file, aborted, sc, it>>

\* createFilterIterator handing the size of the bit vector to the iterator as its limit.
iteratorDocIdLimitSize == Len(bv.bits)

\* createFilterIterator: the limit handed to the iterator, _attr.getCommittedDocIdLimit().
iteratorDocIdLimit == committedDocIdLimit

\* BitVectorSearchContext::createFilterIterator: an EmptySearch for an invalid context,
\* else a BitVectorIterator over the attribute's bit vector. committed and size record
\* the committed limit and the number of bits at the call.
createIterator ==
    /\ ~aborted
    /\ sc.made
    /\ it' = IF ~sc.valid
             THEN [NoIterator EXCEPT !.made = TRUE, !.committed = committedDocIdLimit,
                                     !.size = Len(bv.bits)]
             ELSE [made |-> TRUE, empty |-> FALSE, limit |-> iteratorDocIdLimit,
                   invert |-> sc.invert, committed |-> committedDocIdLimit,
                   size |-> Len(bv.bits)]
    /\ last' = Call("createFilterIterator", 0, 0, 0, {}, TRUE)
    /\ UNCHANGED <<numDocs, committedDocIdLimit, uncommittedDocIdLimit, bv, changes,
                   generation, firstUsed, hold1, hold2, file, aborted, sc>>

\* The iterator is asked for a document: it matches when the document is below its limit
\* and its bit, as it is now, is the one looked for. ret is 1 for a match.
seek(doc) ==
    /\ ~aborted
    /\ it.made
    /\ LET hit == ~it.empty /\ doc \in BitVectorIterator(bv.bits, it.limit, it.invert)
       IN last' = Call("seek", IF hit THEN 1 ELSE 0, doc, 0, {}, TRUE)
    /\ UNCHANGED <<numDocs, committedDocIdLimit, uncommittedDocIdLimit, bv, changes,
                   generation, firstUsed, hold1, hold2, file, aborted, sc, it>>

\* ------------------------------------------- the writer's stores and the readers
\* A store waits in sbuf until it becomes visible. Stores to different places may
\* become visible in any order, but none passes a release fence, nor an older store to
\* its own place. epoch is the committed limit the writer held when it issued the store.
FenceItem == [k |-> "fence", doc |-> 0, val |-> 0, epoch |-> 0]

BitStore(doc, val, epoch) == [k |-> "bit", doc |-> doc, val |-> val, epoch |-> epoch]

LimitStore(val) == [k |-> "limit", doc |-> 0, val |-> val, epoch |-> 0]

NumDocsStore(val) == [k |-> "numDocs", doc |-> 0, val |-> val, epoch |-> 0]

\* std::atomic_thread_fence(std::memory_order_release)
releaseFence(buf) ==
    IF buf = <<>> \/ buf[Len(buf)].k = "fence" THEN buf ELSE Append(buf, FenceItem)

SamePlace(a, b) == a.k = b.k /\ a.doc = b.doc

canFlush(buf, i) ==
    /\ buf[i].k # "fence"
    /\ \A j \in 1..(i - 1) : buf[j].k # "fence" /\ ~SamePlace(buf[j], buf[i])

RECURSIVE dropFences(_)
dropFences(buf) ==
    IF buf # <<>> /\ Head(buf).k = "fence" THEN dropFences(Tail(buf)) ELSE buf

without(buf, i) == dropFences(SubSeq(buf, 1, i - 1) \o SubSeq(buf, i + 1, Len(buf)))

stored(m, item) ==
    CASE item.k = "bit" -> [m EXCEPT !.bits[item.doc] = item.val]
      [] item.k = "limit" -> [m EXCEPT !.limit = item.val]
      [] item.k = "numDocs" -> [m EXCEPT !.numDocs = item.val]
      [] OTHER -> m

WriterIdle == [pc |-> "idle", idx |-> 0]

ReaderIdle == [pc |-> "idle", limit |-> 0, pos |-> 0, val |-> 0, stale |-> FALSE]

\* One of the writer's stores becomes visible to the readers.
flush(i) ==
    /\ i \in 1..Len(sbuf)
    /\ canFlush(sbuf, i)
    /\ mem' = stored(mem, sbuf[i])
    /\ sbuf' = without(sbuf, i)
    /\ UNCHANGED <<colvars, wpc, rdr>>

\* addDoc as the readers see it: the new bit is zeroed and the count is stored.
pubAddDoc ==
    /\ wpc.pc = "idle"
    /\ Len(sbuf) < MaxBuf
    /\ addDoc
    /\ sbuf' = sbuf \o <<BitStore(numDocs, 0, committedDocIdLimit), NumDocsStore(numDocs + 1)>>
    /\ UNCHANGED <<mem, wpc, rdr>>

pubUpdate(doc, data) ==
    /\ wpc.pc = "idle"
    /\ Len(changes) < MaxPending
    /\ enqueue(UPDATE, doc, data)
    /\ UNCHANGED <<pubvars, searchvars>>

\* onCommit is entered: with changes it walks them, without it goes to its last fence.
commitBegin ==
    /\ ~aborted
    /\ wpc.pc = "idle"
    /\ wpc' = IF changes # <<>> THEN [pc |-> "apply", idx |-> 1] ELSE [pc |-> "fence", idx |-> 0]
    /\ UNCHANGED <<colvars, mem, sbuf, rdr>>

\* onCommit, one turn of the loop: a release fence, then the bit of the change is written.
commitApply ==
    /\ wpc.pc = "apply"
    /\ Len(sbuf) < MaxBuf
    /\ LET change == changes[wpc.idx]
           bits == applyChange(bv.bits, change)
       IN /\ bv' = [bv EXCEPT !.bits = bits]
          /\ sbuf' = IF change.doc < Len(bits)
                     THEN Append(releaseFence(sbuf),
                                 BitStore(change.doc, getFast(bits, change.doc),
                                          committedDocIdLimit))
                     ELSE releaseFence(sbuf)
          /\ wpc' = IF wpc.idx < Len(changes) THEN [wpc EXCEPT !.idx = @ + 1]
                    ELSE [pc |-> "fence", idx |-> 0]
    /\ UNCHANGED <<numDocs, committedDocIdLimit, uncommittedDocIdLimit, changes, generation,
                   firstUsed, hold1, hold2, file, aborted, last, mem, rdr>>

\* onCommit, after the loop: the last release fence, the trim, and the changes cleared.
commitFinish ==
    /\ wpc.pc = "fence"
    /\ LET h == removeAllOldGenerations(Holder, firstUsed)
       IN /\ sbuf' = releaseFence(sbuf)
          /\ SetHolder(h)
          /\ last' = Call("commit", 0, Len(changes), 0, h.freed, TRUE)
    /\ bv' = onCommitCount(bv, changes)
    /\ changes' = <<>>
    /\ wpc' = [pc |-> "publish", idx |-> 0]
    /\ UNCHANGED <<numDocs, committedDocIdLimit, uncommittedDocIdLimit, firstUsed,
                   file, aborted, mem, rdr>>

\* AttributeVector::commit, after onCommit: the committed limit is stored with release
\* order when it moves.
commitPublish ==
    /\ wpc.pc = "publish"
    /\ Len(sbuf) < MaxBuf
    /\ committedDocIdLimit' =
           updateCommittedDocIdLimit(committedDocIdLimit, uncommittedDocIdLimit)
    /\ sbuf' = IF committedDocIdLimit' # committedDocIdLimit
               THEN Append(releaseFence(sbuf), LimitStore(committedDocIdLimit'))
               ELSE sbuf
    /\ wpc' = WriterIdle
    /\ UNCHANGED <<numDocs, uncommittedDocIdLimit, bv, changes, generation, firstUsed,
                   hold1, hold2, file, aborted, last, mem, rdr>>

\* createFilterIterator reading the limit as the count of documents instead.
readerDocIdLimitNumDocs(m) == m.numDocs

\* createFilterIterator: the limit handed to the iterator, _attr.getCommittedDocIdLimit(),
\* loaded with acquire order.
readerDocIdLimit(m) == m.limit

\* A reader creates its iterator.
readerCreate ==
    /\ rdr.pc = "idle"
    /\ rdr' = [pc |-> "scan", limit |-> readerDocIdLimit(mem), pos |-> 0, val |-> 0,
               stale |-> FALSE]
    /\ UNCHANGED <<colvars, mem, sbuf, wpc>>

\* A store to the bit of doc, issued before the limit was published, that is not
\* visible yet.
hiddenFrom(limit, doc) ==
    \E i \in 1..Len(sbuf) : sbuf[i].k = "bit" /\ sbuf[i].doc = doc /\ sbuf[i].epoch < limit

\* The iterator reads the bit of its next document below the limit.
readerRead ==
    /\ rdr.pc = "scan"
    /\ rdr.pos < rdr.limit
    /\ rdr' = [rdr EXCEPT !.val = mem.bits[rdr.pos],
                          !.stale = @ \/ hiddenFrom(rdr.limit, rdr.pos),
                          !.pos = @ + 1]
    /\ UNCHANGED <<colvars, mem, sbuf, wpc>>

\* The iterator has reached its limit and is discarded.
readerDone ==
    /\ rdr.pc = "scan"
    /\ rdr.pos >= rdr.limit
    /\ rdr' = ReaderIdle
    /\ UNCHANGED <<colvars, mem, sbuf, wpc>>

\* ------------------------------------------------------------ specification
\* The attribute after construction.
Init ==
    /\ numDocs = 0
    /\ committedDocIdLimit = 0
    /\ uncommittedDocIdLimit = 0
    /\ bv = EmptyBitVector
    /\ changes = <<>>
    /\ generation = 0
    /\ firstUsed = 0
    /\ hold1 = 0
    /\ hold2 = <<>>
    /\ file = NoFile
    /\ aborted = FALSE
    /\ last = NoCall
    /\ mem = [bits |-> [d \in 0..(MaxDocs - 1) |-> 0], limit |-> 0, numDocs |-> 0]
    /\ sbuf = <<>>
    /\ wpc = WriterIdle
    /\ rdr = ReaderIdle
    /\ sc = NoContext
    /\ it = NoIterator

vars == <<colvars, pubvars, searchvars>>

\* The calls of the writer, each running alone from its first line to its return.
AddDoc == addDoc /\ UNCHANGED <<pubvars, searchvars>>

OnAddDocs == \E docIdLimit \in 1..MaxDocs : onAddDocs(docIdLimit) /\ UNCHANGED <<pubvars, searchvars>>

Update ==
    \E doc \in 0..(MaxDocs - 1), data \in Operands(UPDATE) :
        Len(changes) < MaxPending /\ enqueue(UPDATE, doc, data) /\ UNCHANGED <<pubvars, searchvars>>

Enqueue ==
    \E type \in ChangeTypes, doc \in 0..(MaxDocs - 1) :
        \E data \in Operands(type) : enqueue(type, doc, data) /\ UNCHANGED <<pubvars, searchvars>>

Commit == commit /\ UNCHANGED <<pubvars, searchvars>>

ClearDocs ==
    \E lidLow, lidLimit \in 0..MaxDocs : clearDocs(lidLow, lidLimit) /\ UNCHANGED <<pubvars, searchvars>>

ShrinkLidSpace == onShrinkLidSpace /\ UNCHANGED <<pubvars, searchvars>>

Save == onSave /\ UNCHANGED <<pubvars, searchvars>>

Load == onLoad /\ UNCHANGED <<pubvars, searchvars>>

RemoveOldGenerations == removeOldGenerationsCall /\ UNCHANGED <<pubvars, searchvars>>

UpdateFirstUsedGeneration ==
    \E g \in 1..MaxDocs : updateFirstUsedGeneration(g) /\ UNCHANGED <<pubvars, searchvars>>

\* The writer's life cycle: documents, single updates, commit, shrink, save and load.
Next ==
    \/ AddDoc
    \/ Update
    \/ Commit
    \/ ShrinkLidSpace
    \/ Save
    \/ Load

Spec == Init /\ [][Next]_vars

\* Generations: growth, commits, loads, trims and readers that come and go.
NextGen ==
    \/ AddDoc
    \/ OnAddDocs
    \/ Commit
    \/ Save
    \/ Load
    \/ RemoveOldGenerations
    \/ UpdateFirstUsedGeneration

SpecGen == Init /\ [][NextGen]_vars

\* The change queue: every type of change, and commits.
NextCommit ==
    \/ AddDoc
    \/ Enqueue
    \/ Commit

SpecCommit == Init /\ [][NextCommit]_vars

\* One writer, step by step through commit, and readers that scan while it runs.
PubAddDoc == pubAddDoc /\ UNCHANGED searchvars

PubUpdate == \E doc \in 0..(MaxDocs - 1), data \in Operands(UPDATE) : pubUpdate(doc, data)

CommitBegin == commitBegin /\ UNCHANGED searchvars

CommitApply == commitApply /\ UNCHANGED searchvars

CommitFinish == commitFinish /\ UNCHANGED searchvars

CommitPublish == commitPublish /\ UNCHANGED searchvars

Flush == \E i \in 1..(MaxBuf + 3) : flush(i) /\ UNCHANGED searchvars

ReaderCreate == readerCreate /\ UNCHANGED searchvars

ReaderRead == readerRead /\ UNCHANGED searchvars

ReaderDone == readerDone /\ UNCHANGED searchvars

NextPub ==
    \/ PubAddDoc
    \/ PubUpdate
    \/ CommitBegin
    \/ CommitApply
    \/ CommitFinish
    \/ CommitPublish
    \/ Flush
    \/ ReaderCreate
    \/ ReaderRead
    \/ ReaderDone

SpecPub == Init /\ [][NextPub]_vars

\* Queries: search contexts for every kind of term, their estimates and iterators, while
\* the writer adds documents and commits updates.
TermTrueCapital == <<"T", "r", "u", "e">>

TermFalseUpper == <<"F", "A", "L", "S", "E">>

TermBanana == <<"b", "a", "n", "a", "n", "a">>

TermEmpty == <<>>

Term2 == <<"2">>

TermTru == <<"t", "r", "u">>

TermTrue1 == <<"t", "r", "u", "e", "1">>

Terms ==
    {Term1, Term0, TermTrue, TermFalse, TermTrueCapital, TermFalseUpper, TermBanana,
     TermEmpty, Term2, TermTru, TermTrue1}

GetSearch == \E term \in Terms, isValid \in BOOLEAN : getSearch(term, isValid) /\ UNCHANGED pubvars

ApproximateHits == approximateHits /\ UNCHANGED pubvars

CreateIterator == createIterator /\ UNCHANGED pubvars

Seek == \E doc \in 0..(MaxDocs - 1) : seek(doc) /\ UNCHANGED pubvars

UpdateCommit ==
    \E doc \in 0..(MaxDocs - 1), data \in Operands(UPDATE) :
        updateCommit(doc, data) /\ UNCHANGED <<pubvars, searchvars>>

NextSearch ==
    \/ AddDoc
    \/ Commit
    \/ UpdateCommit
    \/ GetSearch
    \/ ApproximateHits
    \/ CreateIterator
    \/ Seek

SpecSearch == Init /\ [][NextSearch]_vars

\* Changes of every type, one at a time, with operands around the range of int8_t.
ApplyOne ==
    \E type \in ChangeTypes, doc \in 0..(MaxDocs - 1) :
        \E data \in WideOperands(type) :
            applyOne(type, doc, data) /\ UNCHANGED <<pubvars, searchvars>>

NextArith ==
    \/ AddDoc
    \/ ApplyOne

SpecArith == Init /\ [][NextArith]_vars

\* Estimates around saves and loads, for the two terms that match documents.
BoolTerms == {Term1, Term0}

GetSearchBool == \E term \in BoolTerms : getSearch(term, TRUE) /\ UNCHANGED pubvars

NextLoad ==
    \/ AddDoc
    \/ UpdateCommit
    \/ Save
    \/ Load
    \/ GetSearchBool
    \/ ApproximateHits

SpecLoad == Init /\ [][NextLoad]_vars

\* Shrinks among documents added, updates and commits.
NextShrink ==
    \/ AddDoc
    \/ Update
    \/ Commit
    \/ ShrinkLidSpace

SpecShrink == Init /\ [][NextShrink]_vars

\* Saves and loads among documents added, updates and commits.
NextSave ==
    \/ AddDoc
    \/ Update
    \/ Commit
    \/ Save
    \/ Load

SpecSave == Init /\ [][NextSave]_vars

\* Document ids handed out, taken back by shrinks and loads, and handed out again; each
\* update is committed before the next call.
UpdateOne ==
    \E doc \in 0..(MaxDocs - 1), data \in Operands(UPDATE) :
        applyOne(UPDATE, doc, data) /\ UNCHANGED <<pubvars, searchvars>>

NextAppend ==
    \/ AddDoc
    \/ UpdateOne
    \/ Commit
    \/ ShrinkLidSpace
    \/ Save
    \/ Load

SpecAppend == Init /\ [][NextAppend]_vars

\* Range clears among single updates and commits.
NextClear ==
    \/ AddDoc
    \/ Update
    \/ Commit
    \/ ClearDocs

SpecClear == Init /\ [][NextClear]_vars

\* ------------------------------------------------------------------ claims
\* get(doc): the value of an existing document.
get(doc) == getFast(bv.bits, doc)

\* C1: in every state reachable by addDoc, commit, shrink, clearRange and successful
\* load, committedDocIdLimit <= uncommittedDocIdLimit <= numDocs.
C1_LimitsOrdered ==
    ~aborted =>
        /\ committedDocIdLimit <= uncommittedDocIdLimit
        /\ uncommittedDocIdLimit <= numDocs

\* C2: a buffer retired at generation G is never freed while the first used generation
\* is <= G: every buffer the last call freed had a tag below the first used generation.
C2_ReclamationSafe == \A f \in last.freed : f.fu > f.tag

\* C4: addDoc returns the number of documents before the call, increases it by exactly
\* one, and the new document reads 0; a document's bit leaves 0 only in a commit that
\* applies a change for that document (a load replaces every document of the attribute).
C4_MonotonicAppend ==
    [][/\ last'.op = "addDoc" =>
            /\ last'.ret = numDocs
            /\ numDocs' = numDocs + 1
            /\ getFast(bv'.bits, last'.ret) = 0
       /\ \A d \in 0..(numDocs - 1) :
            (d < numDocs' /\ get(d) = 0 /\ getFast(bv'.bits, d) # 0 /\ last'.op # "onLoad")
                => \/ /\ last'.op = "commit"
                      /\ \E i \in 1..Len(changes) : changes[i].doc = d
                   \/ /\ last'.op \in ChangeTypes
                      /\ last'.lo = d]_vars

\* C4 witness: addDoc has handed out id 1 a second time (ids up to 2 were reserved
\* before, and a shrink or a load took them back) beside a set document 0.
C4_Witness ==
    /\ last.op = "addDoc"
    /\ last.ret = 1
    /\ numDocs = 2
    /\ uncommittedDocIdLimit = 3
    /\ get(1) = 0
    /\ get(0) = 1

\* C7: saving an attribute whose committed limit is N and loading the file yields
\* numDocs = committedDocIdLimit = N and, for every document below N, the saved value.
C7_RoundTrip ==
    (last.op = "onLoad" /\ file.present /\ file.srcLimit <= Len(file.srcBits)) =>
        /\ last.ok /\ ~aborted
        /\ numDocs = file.srcLimit
        /\ committedDocIdLimit = file.srcLimit
        /\ \A d \in 0..(file.srcLimit - 1) : get(d) = file.srcBits[d + 1]

\* C7 witness: a load of a file saved with two committed documents, set and clear, and
\* a third one not yet committed.
C7_Witness ==
    /\ last.op = "onLoad" /\ last.ok
    /\ file.srcLimit = 2
    /\ Len(file.srcBits) = 3
    /\ get(0) = 0 /\ get(1) = 1

\* C8: the bytes saved are a count equal to committedDocIdLimit followed by exactly
\* ceil(count / 8) payload bytes in which bit i is document i's value.
C8_FileLayout ==
    file.present =>
        /\ file.count = file.srcLimit
        /\ Len(file.payload) = (file.count + BitsPerByte - 1) \div BitsPerByte
        /\ \A d \in 0..(file.count - 1) :
               d < Len(file.srcBits) =>
                   (file.payload[(d \div BitsPerByte) + 1] \div Pow2(d % BitsPerByte)) % 2
                       = file.srcBits[d + 1]

\* C9: shrink succeeds exactly when committedDocIdLimit < numDocs, and then sets numDocs
\* to committedDocIdLimit, truncates the storage to it and leaves the committed limit
\* and every bit below it unchanged; otherwise the call is a fatal assertion failure.
C9_ShrinkPrecondition ==
    [][last'.op = "onShrinkLidSpace" =>
          IF committedDocIdLimit < numDocs
          THEN /\ last'.ok /\ ~aborted'
               /\ numDocs' = committedDocIdLimit
               /\ Len(bv'.bits) = committedDocIdLimit
               /\ committedDocIdLimit' = committedDocIdLimit
               /\ \A d \in 0..(committedDocIdLimit - 1) : getFast(bv'.bits, d) = get(d)
          ELSE ~last'.ok /\ aborted']_vars

\* C9 witness: a shrink has returned, leaving a committed set document behind.
C9_Witness ==
    /\ last.op = "onShrinkLidSpace" /\ last.ok
    /\ numDocs = 2
    /\ get(1) = 1

\* The last change of a change vector for a document, NoChange when there is none.
NoChange == Change("NONE", 0, 0)

LastChangeFor(chs, d) ==
    LET idx == {i \in 1..Len(chs) : chs[i].doc = d}
    IN IF idx = {} THEN NoChange ELSE chs[CHOOSE i \in idx : \A j \in idx : j <= i]

\* C5: once a commit whose last change for an existing document d is SetValue(d, true)
\* has completed, get(d) is true and an iterator for "1" matches d; once one whose last
\* change for d is ClearDoc(d) has completed, get(d) is false and an iterator for "0"
\* matches d.
C5_CommitVisibility ==
    [][last'.op = "commit" =>
          \A d \in 0..(numDocs - 1) :
              LET m == LastChangeFor(changes, d)
              IN /\ (m.type = UPDATE /\ m.data # 0) =>
                        /\ getFast(bv'.bits, d) = 1
                        /\ d \in createFilterIterator(BitVectorSearchContext(Term1, TRUE),
                                                      bv'.bits, committedDocIdLimit')
                 /\ m.type = CLEARDOC =>
                        /\ getFast(bv'.bits, d) = 0
                        /\ d \in createFilterIterator(BitVectorSearchContext(Term0, TRUE),
                                                      bv'.bits, committedDocIdLimit')]_vars

\* C5 witness: a commit of two changes has completed and published document 1, which
\* is set and matched by "1", beside document 0, clear and matched by "0".
C5_Witness ==
    /\ last.op = "commit" /\ last.lo = 2
    /\ numDocs = 2
    /\ 1 \in createFilterIterator(BitVectorSearchContext(Term1, TRUE), bv.bits,
                                  committedDocIdLimit)
    /\ 0 \in createFilterIterator(BitVectorSearchContext(Term0, TRUE), bv.bits,
                                  committedDocIdLimit)

\* The value a change gives a document whose value is b.
ChangedValue(b, c) ==
    CASE c.type = UPDATE -> IF c.data # 0 THEN 1 ELSE 0
      [] c.type = ADD -> IF trunc8(b + c.data) # 0 THEN 1 ELSE 0
      [] c.type = SUB -> IF trunc8(b - c.data) # 0 THEN 1 ELSE 0
      [] c.type = MUL -> IF trunc8(b * c.data) # 0 THEN 1 ELSE 0
      [] c.type = DIV -> IF trunc8(truncDiv(b, c.data)) # 0 THEN 1 ELSE 0
      [] c.type = CLEARDOC -> 0
      [] OTHER -> b

\* The changes of a document folded, in order, over its value b.
RECURSIVE FoldDoc(_, _, _)
FoldDoc(b, chs, d) ==
    IF chs = <<>> THEN b
    ELSE FoldDoc(IF Head(chs).doc = d THEN ChangedValue(b, Head(chs)) ELSE b, Tail(chs), d)

\* C6: a commit applies every pending change exactly once and in order: the bit of each
\* document is the fold of its changes over its value before the commit, and the change
\* vector is empty when commit returns.
C6_AppliedOnceInOrder ==
    [][last'.op = "commit" =>
          /\ \A d \in 0..(numDocs - 1) : getFast(bv'.bits, d) = FoldDoc(get(d), changes, d)
          /\ changes' = <<>>]_vars

\* C6 witness: a commit of two changes has completed and left a document set.
C6_Witness ==
    /\ last.op = "commit" /\ last.lo = 2
    /\ changes = <<>>
    /\ \E d \in 0..(numDocs - 1) : get(d) = 1

\* The changes a call has appended to the change vector.
Appended == SubSeq(changes', Len(changes) + 1, Len(changes'))

\* C10: for low <= high <= numDocs, clearRange(low, high) writes no bit and issues
\* exactly one ClearDoc for each set document of [low, high), none for any other
\* document; committing what it issued clears exactly these documents.
C10_RangeClear ==
    [][(last'.op = "clearDocs" /\ last'.lo <= last'.hi /\ last'.hi <= numDocs) =>
          /\ last'.ok
          /\ bv' = bv
          /\ Len(changes') >= Len(changes)
          /\ SubSeq(changes', 1, Len(changes)) = changes
          /\ \A i \in 1..Len(Appended) : Appended[i].type = CLEARDOC
          /\ \A d \in 0..MaxDocs :
                 Cardinality({i \in 1..Len(Appended) : Appended[i].doc = d})
                     = IF last'.lo <= d /\ d < last'.hi /\ get(d) # 0 THEN 1 ELSE 0
          /\ \A d \in 0..(numDocs - 1) :
                 getFast(onCommitBits(bv.bits, Appended), d)
                     = IF last'.lo <= d /\ d < last'.hi THEN 0 ELSE get(d)]_vars

\* C10 witness: a range clear over documents 0 and 1, of which only 1 was set, beside a
\* set document 2 outside the range, has issued one change.
C10_Witness ==
    /\ last.op = "clearDocs" /\ last.ok
    /\ last.lo = 0 /\ last.hi = 2
    /\ numDocs = 3
    /\ get(0) = 0 /\ get(1) = 1 /\ get(2) = 1
    /\ changes = <<Change(CLEARDOC, 1, 0)>>

IsTextTrue(t) ==
    \/ t = <<"1">>
    \/ /\ Len(t) = 4
       /\ t[1] \in {"t", "T"} /\ t[2] \in {"r", "R"} /\ t[3] \in {"u", "U"}
       /\ t[4] \in {"e", "E"}

\* The text is "0" or, in any mix of cases, "false".
IsTextFalse(t) ==
    \/ t = <<"0">>
    \/ /\ Len(t) = 5
       /\ t[1] \in {"f", "F"} /\ t[2] \in {"a", "A"} /\ t[3] \in {"l", "L"}
       /\ t[4] \in {"s", "S"} /\ t[5] \in {"e", "E"}

\* The matrix of the term texts, and what an Invalid context answers.
TermMatrix ==
    /\ predicate(sc) = MatchSetBits <=> IsTextTrue(sc.term)
    /\ predicate(sc) = MatchClearedBits <=> IsTextFalse(sc.term)
    /\ predicate(sc) = Invalid <=> (~IsTextTrue(sc.term) /\ ~IsTextFalse(sc.term))

InvalidAnswersNothing ==
    predicate(sc) = Invalid =>
        /\ approximateHitsValue(sc, bv) = 0
        /\ last.op = "approximateHits" => last.ret = 0
        /\ createFilterIterator(sc, bv.bits, committedDocIdLimit) = {}
        /\ (it.made /\ last.op = "seek") => last.ret = 0

\* C11, as stated: a search context built from term text t is MatchSetBits iff t is "1"
\* or case-insensitively "true", MatchClearedBits iff t is "0" or case-insensitively
\* "false", Invalid for every other text; an Invalid context estimates 0 hits and its
\* iterator matches no document.
C11_TermMatrixAnyTerm == sc.made => (TermMatrix /\ InvalidAnswersNothing)

\* C11, amended: the matrix holds for every term the term parser reports valid; an
\* Invalid context, whatever made it Invalid, estimates 0 hits and its iterator matches
\* no document in any state of the attribute.
C11_TermMatrix ==
    sc.made => /\ sc.isValid => TermMatrix
               /\ InvalidAnswersNothing

\* C11 witness: the iterator of the context for "banana", a term the parser reports
\* valid, was asked for a committed document whose bit is set, and did not match it.
C11_Witness ==
    /\ sc.made /\ sc.isValid /\ sc.term = TermBanana
    /\ predicate(sc) = Invalid
    /\ it.made /\ last.op = "seek" /\ last.ret = 0
    /\ last.lo < committedDocIdLimit /\ get(last.lo) = 1

\* C17: the predicate of a search context is determined by the raw term text alone: for
\* "1" / "true" it is MatchSetBits and for "0" / "false" MatchClearedBits, whatever
\* validity flag the term parser reports.
C17_TextAlone ==
    sc.made =>
        /\ IsTextTrue(sc.term) => predicate(sc) = MatchSetBits
        /\ IsTextFalse(sc.term) => predicate(sc) = MatchClearedBits

\* The number of documents whose bit is set.
SetDocs == Cardinality({d \in 0..(numDocs - 1) : get(d) # 0})

\* C12: after any sequence of addDoc and commits, approximateHits() returns 0 for an
\* Invalid context, the number of set bits for MatchSetBits, and the number of documents
\* minus the number of set bits for MatchClearedBits.
C12_ApproximateHits ==
    (last.op = "approximateHits" /\ sc.made) =>
        last.ret = CASE predicate(sc) = Invalid -> 0
                     [] predicate(sc) = MatchSetBits -> SetDocs
                     [] predicate(sc) = MatchClearedBits -> numDocs - SetDocs

\* C12 witness: with three documents of which one was set by a commit, the context for
\* "0" has estimated two hits.
C12_Witness ==
    /\ last.op = "approximateHits" /\ last.ret = 2
    /\ sc.made /\ sc.term = Term0 /\ predicate(sc) = MatchClearedBits
    /\ numDocs = 3 /\ SetDocs = 1
    /\ bv.count = 1

\* C16: an iterator matches only documents strictly below the committedDocIdLimit read
\* when it was created: a document added, or committed, after the call is never matched,
\* nor is one that was added but not committed at the call.
C16_SnapshotBoundary ==
    (it.made /\ last.op = "seek" /\ last.ret = 1) => last.lo < it.committed

\* C16 witness: an inverted iterator was asked for a clear document that was committed
\* after the iterator was created, and did not match it.
C16_Witness ==
    /\ it.made /\ ~it.empty /\ it.invert
    /\ last.op = "seek" /\ last.ret = 0
    /\ it.committed <= last.lo /\ last.lo < committedDocIdLimit
    /\ get(last.lo) = 0

\* C13: when the byte source reports no data, load returns a not-ok result and leaves
\* the attribute untouched: the number of documents, the committed limit, every bit, the
\* generation and the held buffers are as before the call.
C13_FailedLoad ==
    [][(last'.op = "onLoad" /\ ~file.present) =>
          /\ ~last'.ok
          /\ ~aborted'
          /\ last'.freed = {}
          /\ numDocs' = numDocs
          /\ committedDocIdLimit' = committedDocIdLimit
          /\ uncommittedDocIdLimit' = uncommittedDocIdLimit
          /\ bv' = bv
          /\ changes' = changes
          /\ generation' = generation
          /\ hold1' = hold1
          /\ hold2' = hold2
          /\ file' = file]_vars

\* C13 witness: a load has failed on an attribute of two documents, the second one set,
\* that holds a retired buffer.
C13_Witness ==
    /\ last.op = "onLoad" /\ ~last.ok /\ ~aborted
    /\ ~file.present
    /\ numDocs = 2 /\ committedDocIdLimit = 2
    /\ get(1) = 1
    /\ hold2 # <<>>

\* C14: every completed commit, with or without pending changes, advances the generation
\* by one (and then trims the held buffers, before the pending changes are cleared).
C14_CommitAdvancesGeneration ==
    [][last'.op = "commit" => generation' = generation + 1]_vars

\* The tags a step has appended to the tagged hold list.
NewTags == SubSeq(hold2', Len(hold2) + 1, Len(hold2'))

\* C15: a buffer retired while the generation is G is tagged G: the generation moves
\* only by one, in a step that tags every buffer retired since with the generation it
\* leaves. A trim leaves no buffer with a tag below the first used generation on hold; it
\* frees exactly those and keeps the others.
C15_TrimEffect ==
    [][~aborted' =>
          /\ generation' # generation =>
                /\ generation' = generation + 1
                /\ hold1' = 0
                /\ Len(hold2') > Len(hold2)
                /\ SubSeq(hold2', 1, Len(hold2)) = hold2
                /\ \A i \in 1..Len(NewTags) : NewTags[i] = generation
          /\ (generation' = generation /\ last'.op # "onLoad") => hold1' >= hold1
          /\ last'.op \in {"removeOldGenerations", "commit"} =>
                /\ \A i \in 1..Len(hold2') : hold2'[i] >= firstUsed
                /\ hold2' = SelectSeq(hold2, LAMBDA g : ~(g < firstUsed))
                /\ last'.freed =
                       {[tag |-> hold2[i], fu |-> firstUsed] :
                            i \in {j \in 1..Len(hold2) : hold2[j] < firstUsed}}]_vars

\* C15 witness: a trim has freed a buffer tagged below the first used generation and
\* has kept one tagged at or above it.
C15_Witness ==
    /\ last.op = "removeOldGenerations"
    /\ \E f \in last.freed : f.tag < firstUsed
    /\ hold2 # <<>>
    /\ \A i \in 1..Len(hold2) : hold2[i] >= firstUsed

\* C18: addDoc advances the generation if and only if growing the storage reallocated it,
\* retiring the buffer it left; when nothing was reallocated it trims instead and leaves
\* the generation as it was. Exactly one of the two happens on every addDoc.
C18_AddDocGeneration ==
    [][last'.op = "addDoc" =>
          IF bv'.capacity # bv.capacity
          THEN /\ generation' = generation + 1
               /\ last'.freed = {}
               /\ hold1' = 0
               /\ hold2' = hold2 \o [i \in 1..(hold1 + 1) |-> generation]
          ELSE /\ generation' = generation
               /\ hold1' = hold1
               /\ hold2' = SelectSeq(hold2, LAMBDA g : ~(g < firstUsed))
               /\ last'.freed =
                      {[tag |-> hold2[i], fu |-> firstUsed] :
                           i \in {j \in 1..Len(hold2) : hold2[j] < firstUsed}}]_vars

\* C18 witness: an addDoc that found room has trimmed a buffer, and an earlier one that
\* reallocated had advanced the generation.
C18_Witness ==
    /\ last.op = "addDoc"
    /\ last.freed # {}
    /\ generation >= 1
    /\ numDocs <= bv.capacity

\* The int8_t that x becomes: the value of -128..127 that differs from x by a multiple
\* of 256.
Wrap8(x) == CHOOSE v \in (-128)..127 : (x - v) % 256 = 0

\* b / n for a bit b and n # 0, rounded towards zero.
Quotient(b, n) ==
    CHOOSE q \in (-1)..1 :
        LET r == b - q * n
        IN /\ (IF r < 0 THEN -r ELSE r) < (IF n < 0 THEN -n ELSE n)
           /\ r >= 0

ArithResult(b, kind, operand) ==
    CASE kind = ADD -> b + operand
      [] kind = SUB -> b - operand
      [] kind = MUL -> b * operand
      [] kind = DIV -> Quotient(b, operand)

\* C19: committing an arithmetic change of any kind, with any operand a division is
\* defined for, on a bit b writes the bit (trunc8(b op operand) != 0); SetValue writes
\* (operand != 0) and ClearDoc writes 0.
C19_ArithmeticBit ==
    last.op \in ChangeTypes =>
        /\ get(last.lo) =
               CASE last.op = UPDATE -> IF last.hi # 0 THEN 1 ELSE 0
                 [] last.op = CLEARDOC -> 0
                 [] OTHER -> IF Wrap8(ArithResult(last.ret, last.op, last.hi)) # 0
                             THEN 1 ELSE 0
        /\ changes = <<>>

\* C19 witness: Add 256 was committed on a set bit, and the bit is still set.
C19_Witness ==
    /\ last.op = ADD /\ last.hi = 256 /\ last.ret = 1
    /\ get(last.lo) = 1

\* Add -1 was committed on a set bit, and the bit is clear.
C19_WitnessMinusOne ==
    /\ last.op = ADD /\ last.hi = -1 /\ last.ret = 1
    /\ get(last.lo) = 0

\* The number of documents below the file's count whose bit is set in its payload.
PayloadSetDocs ==
    Cardinality({d \in 0..(file.count - 1) :
                    (file.payload[(d \div 8) + 1] \div Pow2(d % 8)) % 2 = 1})

\* C20: right after a successful load, whatever the attribute held before and whatever
\* count it had cached, approximateHits() is the number of set documents of the loaded
\* payload for "1", and the file's document count minus that number for "0".
C20_HitsAfterLoad ==
    [][(last.op = "onLoad" /\ last.ok /\ ~aborted /\ last'.op = "approximateHits") =>
          last'.ret = CASE predicate(sc) = Invalid -> 0
                        [] predicate(sc) = MatchSetBits -> PayloadSetDocs
                        [] predicate(sc) = MatchClearedBits -> file.count - PayloadSetDocs]_vars
====
